---- MODULE Spec2Model ----
(***************************************************************************)
(* Data comparison of reccmp (reccmp/tools/datacmp.py).                    *)
(*                                                                         *)
(* do_the_comparison is a generator: it walks the matched variables of the *)
(* compare DB, resolves the size of each through the recompiled PDB's      *)
(* types, reads both images, and yields one ComparisonItem per variable.   *)
(* main pulls the items, counts them and counts the problems.              *)
(*                                                                         *)
(* The compare DB, the cvdump type database and the image reader are       *)
(* reccmp.isledecomp, which datacmp.py imports; they are modelled by what  *)
(* the engine asks of them.                                                *)
(***************************************************************************)
EXTENDS Integers, Sequences, FiniteSets, TLC

\* ------------------------------------------------------------------ bounds
\* Longest enumeration of matched variables.
MaxVars == 2
\* Largest byte value an image holds.
MaxByte == 1
\* Longest `compared` list of an arbitrary ComparisonItem.
MaxMembers == 3

\* ------------------------------------------------------------ plain values
\* Python's None, where the other values of the field are strings.
None == "None"

Min(a, b) == IF a < b THEN a ELSE b

\* An Optional[bytes]: None is Absent.
Absent == [present |-> FALSE, bytes |-> <<>>]

Present(b) == [present |-> TRUE, bytes |-> b]

\* class CompareResult(Enum)
CompareResult == {"MATCH", "DIFF", "ERROR", "WARN"}

\* bytes.ljust(n, b"\x00"): the bytes, extended on the right with zeroes to n.
ljust(b, n) == IF Len(b) < n THEN b \o [i \in 1..(n - Len(b)) |-> 0] ELSE b

\* A little-endian unsigned field ("<" formats of struct).
RECURSIVE LittleEndian(_)
LittleEndian(b) == IF b = <<>> THEN 0 ELSE Head(b) + 256 * LittleEndian(Tail(b))

\* struct.calcsize of a format, given as the widths of its fields.
RECURSIVE calcsize(_)
calcsize(fmt) == IF fmt = <<>> THEN 0 ELSE Head(fmt) + calcsize(Tail(fmt))

\* struct.unpack(format_str, raw), for a raw of calcsize(format_str) bytes:
\* one unsigned value per field. (Another length makes unpack raise.)
RECURSIVE unpack(_, _)
unpack(fmt, raw) ==
    IF fmt = <<>> THEN <<>>
    ELSE <<LittleEndian(SubSeq(raw, 1, Head(fmt)))>>
         \o unpack(Tail(fmt), SubSeq(raw, Head(fmt) + 1, Len(raw)))

\* format(addr, "x"): the hexadecimal digits of addr.
HexDigit(d) == <<"0", "1", "2", "3", "4", "5", "6", "7",
                 "8", "9", "a", "b", "c", "d", "e", "f">>[d + 1]

RECURSIVE ToHex(_)
ToHex(n) == IF n < 16 THEN <<HexDigit(n)>> ELSE ToHex(n \div 16) \o <<HexDigit(n % 16)>>

\* ------------------------------------------------- the debug type database
\* mini_cvdump.types: what get(), get_scalars_gapless() and get_format_string()
\* answer for each type key. lookup is "ok" or the exception get() raises.
\* scalars are the ScalarMembers, format the widths of the fields of the struct
\* format string. Union, Extra and Fewer are layouts whose format does not
\* agree with the scalars or the size.
ScalarType(offset, name, is_pointer) ==
    [offset |-> offset, name |-> name, is_pointer |-> is_pointer]

TypeTable ==
    [key \in {"Missing", "Broken", "T_USHORT", "Pair", "Ptr", "Union", "Extra", "Fewer"} |->
        CASE key = "Missing" ->
                [lookup |-> "CvdumpKeyError", size |-> 0, scalars |-> <<>>, format |-> <<>>]
          [] key = "Broken" ->
                [lookup |-> "CvdumpIntegrityError", size |-> 0, scalars |-> <<>>, format |-> <<>>]
          [] key = "T_USHORT" ->
                [lookup |-> "ok", size |-> 2,
                 scalars |-> <<ScalarType(0, None, FALSE)>>, format |-> <<2>>]
          [] key = "Pair" ->
                [lookup |-> "ok", size |-> 2,
                 scalars |-> <<ScalarType(0, "a", FALSE), ScalarType(1, "b", FALSE)>>,
                 format |-> <<1, 1>>]
          [] key = "Ptr" ->
                [lookup |-> "ok", size |-> 2,
                 scalars |-> <<ScalarType(0, None, TRUE)>>, format |-> <<2>>]
          [] key = "Union" ->
                [lookup |-> "ok", size |-> 1,
                 scalars |-> <<ScalarType(0, "a", FALSE), ScalarType(0, "b", FALSE)>>,
                 format |-> <<1, 1>>]
          [] key = "Extra" ->
                [lookup |-> "ok", size |-> 2,
                 scalars |-> <<ScalarType(0, "a", FALSE), ScalarType(1, "b", FALSE)>>,
                 format |-> <<2>>]
          [] key = "Fewer" ->
                [lookup |-> "ok", size |-> 2,
                 scalars |-> <<ScalarType(0, "a", FALSE)>>, format |-> <<1, 1>>]]

TypeKeys == DOMAIN TypeTable

\* The size of the largest type: images hold up to this many bytes at an address.
MaxTypeSize == CHOOSE n \in 0..8 : /\ \A k \in TypeKeys : TypeTable[k].size <= n
                                   /\ \E k \in TypeKeys : TypeTable[k].size = n

\* ----------------------------------------------------------- the images
Byte == 0..MaxByte

ByteSeqs == UNION {[1..n -> Byte] : n \in 0..MaxTypeSize}

\* What an image holds at an address: nothing (uninitialized, virtual-only
\* space) or the bytes the file has from there to the end of the raw data.
Contents == {Absent} \cup {Present(b) : b \in ByteSeqs}

\* IsleBin.read(vaddr, size): None at an uninitialized address, else at most
\* size bytes.
read(image, addr, size) ==
    IF ~image[addr].present THEN Absent
    ELSE Present(SubSeq(image[addr].bytes, 1, Min(size, Len(image[addr].bytes))))

\* ------------------------------------------------- the symbol match database
\* The addresses matched entities live at: the two non-null pointer values a
\* pointer field decodes to from the bytes 0 and 1.
EntityAddrs == {LittleEndian(<<1, 0>>), LittleEndian(<<0, 1>>)}

EntityName(orig_addr) == IF orig_addr = LittleEndian(<<1, 0>>) THEN "alpha" ELSE "beta"

\* A matched entity of the compare DB (MatchInfo): one address in each image.
Entities ==
    {[orig_addr |-> o, recomp_addr |-> r, name |-> EntityName(o)] :
        o \in EntityAddrs, r \in EntityAddrs}

\* The states of the compare DB: no two entities share an address of an image.
DBStates ==
    {db \in SUBSET Entities :
        \A e1, e2 \in db :
            (e1.orig_addr = e2.orig_addr \/ e1.recomp_addr = e2.recomp_addr) => e1 = e2}

\* isle_compare.get_by_orig(addr): the entities at that original address
\* (none, or one).
get_by_orig(db, addr) == {e \in db : e.orig_addr = addr}

\* isle_compare.get_by_recomp(addr)
get_by_recomp(db, addr) == {e \in db : e.recomp_addr = addr}

\* isle_compare.is_pointer_match(orig, recomp): whether the two addresses
\* target the same matched entity.
is_pointer_match(db, orig, recomp) ==
    \E e \in db : e.orig_addr = orig /\ e.recomp_addr = recomp

\* ------------------------------------------------------------- the engine
\* The display values of a compared member: text (the parts of an f-string),
\* the decoded number of a scalar, or the raw bytes.
Text(parts) == <<"str", parts>>

Number(n) == <<"int", n>>

Bytes(b) == <<"bytes", b>>

\* class ComparedOffset(NamedTuple)
ComparedOffset(offset, name, match, values) ==
    [offset |-> offset, name |-> name, match |-> match, values |-> values]

\* create_comparison_item(var, compared, error, raw_only)
create_comparison_item(var, compared, error, raw_only) ==
    [orig_addr |-> var.orig_addr, recomp_addr |-> var.recomp_addr, name |-> var.name,
     compared |-> compared, error |-> error, raw_only |-> raw_only]

\* result with the two tests in the other order: the members are looked at
\* before the error.
result_MembersFirst(self) ==
    IF \A i \in 1..Len(self.compared) : self.compared[i].match THEN "MATCH"
    ELSE IF self.error # None THEN "ERROR"
    ELSE IF self.raw_only THEN "WARN" ELSE "DIFF"

\* ComparisonItem.result
result(self) ==
    IF self.error # None THEN "ERROR"
    ELSE IF \A i \in 1..Len(self.compared) : self.compared[i].match THEN "MATCH"
    ELSE IF self.raw_only THEN "WARN" ELSE "DIFF"

\* pad that leaves an incomplete read as it came.
pad_Nothing(raw, data_size) == raw

\* The padding of an incomplete read: a present read shorter than data_size
\* is extended with zeroes; None stays None.
pad(raw, data_size) ==
    IF raw.present /\ Len(raw.bytes) < data_size
    THEN Present(ljust(raw.bytes, data_size))
    ELSE raw

AllZero(b) == \A i \in 1..Len(b) : b[i] = 0

\* UninitItem that never sets raw_only.
UninitItem_NoFlag(var, o_raw, r_raw) ==
    LET match == ~o_raw.present /\ ~r_raw.present
        orig_value == IF ~o_raw.present THEN "(uninitialized)" ELSE "(initialized)"
        recomp_value == IF ~r_raw.present THEN "(uninitialized)" ELSE "(initialized)"
    IN  create_comparison_item(
            var,
            <<ComparedOffset(0, None, match,
                             <<Text(<<orig_value>>), Text(<<recomp_value>>)>>)>>,
            None,
            FALSE)

\* UninitItem whose raw_only does not ask that the sides differ in presence.
UninitItem_FlagBothAbsent(var, o_raw, r_raw) ==
    LET match == ~o_raw.present /\ ~r_raw.present
        uninit_force_match ==
            \/ (~o_raw.present /\ AllZero(r_raw.bytes))
            \/ (~r_raw.present /\ AllZero(o_raw.bytes))
        orig_value == IF ~o_raw.present THEN "(uninitialized)" ELSE "(initialized)"
        recomp_value == IF ~r_raw.present THEN "(uninitialized)" ELSE "(initialized)"
    IN  create_comparison_item(
            var,
            <<ComparedOffset(0, None, match,
                             <<Text(<<orig_value>>), Text(<<recomp_value>>)>>)>>,
            None,
            uninit_force_match)

\* UninitItem whose match is "or" where the code has "and".
UninitItem_MatchIsOr(var, o_raw, r_raw) ==
    LET match == ~o_raw.present \/ ~r_raw.present
        uninit_force_match ==
            ~match /\ (\/ (~o_raw.present /\ AllZero(r_raw.bytes))
                       \/ (~r_raw.present /\ AllZero(o_raw.bytes)))
        orig_value == IF ~o_raw.present THEN "(uninitialized)" ELSE "(initialized)"
        recomp_value == IF ~r_raw.present THEN "(uninitialized)" ELSE "(initialized)"
    IN  create_comparison_item(
            var,
            <<ComparedOffset(0, None, match,
                             <<Text(<<orig_value>>), Text(<<recomp_value>>)>>)>>,
            None,
            uninit_force_match)

\* The item of a variable one or both of whose reads are None.
UninitItem(var, o_raw, r_raw) ==
    LET match == ~o_raw.present /\ ~r_raw.present
        uninit_force_match ==
            ~match /\ (\/ (~o_raw.present /\ AllZero(r_raw.bytes))
                       \/ (~r_raw.present /\ AllZero(o_raw.bytes)))
        orig_value == IF ~o_raw.present THEN "(uninitialized)" ELSE "(initialized)"
        recomp_value == IF ~r_raw.present THEN "(uninitialized)" ELSE "(initialized)"
    IN  create_comparison_item(
            var,
            <<ComparedOffset(0, None, match,
                             <<Text(<<orig_value>>), Text(<<recomp_value>>)>>)>>,
            None,
            uninit_force_match)

\* RawItem that leaves raw_only at its default.
RawItem_NotRawOnly(var, o_raw, r_raw) ==
    create_comparison_item(
        var,
        <<ComparedOffset(0, "(raw)", o_raw.bytes = r_raw.bytes,
                         <<Bytes(o_raw.bytes), Bytes(r_raw.bytes)>>)>>,
        None,
        FALSE)

\* The item of a variable without a type: the raw bytes are compared.
RawItem(var, o_raw, r_raw) ==
    create_comparison_item(
        var,
        <<ComparedOffset(0, "(raw)", o_raw.bytes = r_raw.bytes,
                         <<Bytes(o_raw.bytes), Bytes(r_raw.bytes)>>)>>,
        None,
        TRUE)

\* pointer_display that looks every address up among the original addresses.
pointer_display_AlwaysOrig(db, addr, is_orig) ==
    IF addr = 0 THEN Text(<<"nullptr">>)
    ELSE LET ptr_match == get_by_orig(db, addr)
         IN  IF ptr_match # {}
             THEN Text(<<"Pointer to ", (CHOOSE e \in ptr_match : TRUE).name>>)
             ELSE Text(<<"Unknown pointer 0x">> \o ToHex(addr))

\* pointer_display(addr, is_orig)
pointer_display(db, addr, is_orig) ==
    IF addr = 0 THEN Text(<<"nullptr">>)
    ELSE LET ptr_match == IF is_orig THEN get_by_orig(db, addr) ELSE get_by_recomp(db, addr)
         IN  IF ptr_match # {}
             THEN Text(<<"Pointer to ", (CHOOSE e \in ptr_match : TRUE).name>>)
             ELSE Text(<<"Unknown pointer 0x">> \o ToHex(addr))

\* member_match that compares pointers like any scalar, by their raw value.
member_match_RawEquality(db, member, orig_value, recomp_value) ==
    orig_value = recomp_value

\* member_match that hands the original value to the matcher twice.
member_match_SameSide(db, member, orig_value, recomp_value) ==
    IF member.is_pointer
    THEN is_pointer_match(db, orig_value, orig_value)
    ELSE orig_value = recomp_value

\* The verdict of one member of a typed variable.
member_match(db, member, orig_value, recomp_value) ==
    IF member.is_pointer
    THEN is_pointer_match(db, orig_value, recomp_value)
    ELSE orig_value = recomp_value

\* The display values of one member of a typed variable.
member_values(db, member, orig_value, recomp_value) ==
    IF member.is_pointer
    THEN <<pointer_display(db, orig_value, TRUE), pointer_display(db, recomp_value, FALSE)>>
    ELSE <<Number(orig_value), Number(recomp_value)>>

\* Whether the type-aware comparison raises: unpack raises struct.error on a
\* buffer that is not calcsize(format) long, and orig_data[i] raises
\* IndexError for a member past the last field.
typed_raises(type_info, o_raw, r_raw) ==
    \/ calcsize(type_info.format) # Len(o_raw.bytes)
    \/ calcsize(type_info.format) # Len(r_raw.bytes)
    \/ Len(type_info.scalars) > Len(type_info.format)

\* TypedItem that passes raw_only=True.
TypedItem_RawOnly(db, var, type_info, o_raw, r_raw) ==
    LET compare_items == type_info.scalars
        orig_data == unpack(type_info.format, o_raw.bytes)
        recomp_data == unpack(type_info.format, r_raw.bytes)
    IN  create_comparison_item(
            var,
            [i \in 1..Len(compare_items) |->
                ComparedOffset(
                    compare_items[i].offset,
                    compare_items[i].name,
                    member_match(db, compare_items[i], orig_data[i], recomp_data[i]),
                    member_values(db, compare_items[i], orig_data[i], recomp_data[i]))],
            None,
            TRUE)

\* The item of a typed variable: one ComparedOffset per scalar member.
TypedItem(db, var, type_info, o_raw, r_raw) ==
    LET compare_items == type_info.scalars
        orig_data == unpack(type_info.format, o_raw.bytes)
        recomp_data == unpack(type_info.format, r_raw.bytes)
    IN  create_comparison_item(
            var,
            [i \in 1..Len(compare_items) |->
                ComparedOffset(
                    compare_items[i].offset,
                    compare_items[i].name,
                    member_match(db, compare_items[i], orig_data[i], recomp_data[i]),
                    member_values(db, compare_items[i], orig_data[i], recomp_data[i]))],
            None,
            FALSE)

\* ------------------------------------------------------------ main's report
\* value_get(value, default)
value_get(value, default) == IF value # None THEN value ELSE default

\* display_match(result): the name, in colour unless --no-color.
display_match(arguments, res) ==
    IF arguments.no_color THEN <<res>>
    ELSE <<IF res = "MATCH" THEN "GREEN" ELSE IF res = "WARN" THEN "YELLOW" ELSE "RED",
           res, "RESET_ALL">>

\* The address in the line of an item.
address_display(arguments, it) ==
    IF arguments.print_rec_addr
    THEN <<"0x">> \o ToHex(it.orig_addr) \o <<" / 0x">> \o ToHex(it.recomp_addr)
    ELSE <<"0x">> \o ToHex(it.orig_addr)

\* The line of one compared member: one value when it matches, both when not.
member_line(c) ==
    IF c.match
    THEN <<c.offset, value_get(c.name, "(value)"), c.values[1]>>
    ELSE <<c.offset, value_get(c.name, "(value)"), c.values[1], " : ", c.values[2]>>

\* What main prints for one item: nothing for a MATCH without --all; else the
\* line of the item, the error, the members (the matching ones only with
\* --verbose) and, with --verbose, an empty line.
item_lines(arguments, it, res) ==
    IF ~arguments.show_all /\ res = "MATCH" THEN <<>>
    ELSE LET shown(c) == arguments.verbose \/ ~c.match
             members == SelectSeq(it.compared, shown)
         IN  <<<<it.name, address_display(arguments, it), " ... ",
                 display_match(arguments, res)>>>>
             \o (IF it.error # None THEN <<<<it.error>>>> ELSE <<>>)
             \o [i \in 1..Len(members) |-> member_line(members[i])]
             \o (IF arguments.verbose THEN <<<<>>>> ELSE <<>>)

\* ------------------------------------------------------------- the state
VARIABLES
    variables,              \* isle_compare.get_variables(): the matched variables, in order
    origImage,              \* origfile: original address -> what the image holds there
    recompImage,            \* recompfile
    recomp_type_reference,  \* recompiled address -> type key, None without one
    entities,               \* the matched entities of the compare DB
    args,                   \* main's parsed arguments
    project,                \* RecCmpBuiltProject.from_directory: its inputs and its frame
    disk,                   \* the files and directories reccmp-project works on
    call,                   \* create_project or detect_project: its arguments and its frame
    pc,                     \* where do_the_comparison and main are
    idx,                    \* how many variables the for loop has taken
    type_name,              \* locals of the loop body
    data_size,
    orig_raw,
    recomp_raw,
    item,                   \* the item being yielded: <<>> or <<item>>
    opened,                 \* each image: "unopened", "open" or "closed"
    reads,                  \* every read issued to an image, in order
    lookups,                \* every question asked of the type database, in order
    results,                \* the items main has received
    verdicts,               \* item.result of each, as main read it
    var_count,              \* main's counters
    problems,
    printed,                \* the lines main has printed
    exit_code               \* what main returned: <<>> or <<code>>

vars == <<variables, origImage, recompImage, recomp_type_reference, entities, args, project,
          disk, call,
          pc, idx,
          type_name, data_size, orig_raw, recomp_raw, item, opened, reads, lookups,
          results, verdicts, var_count, problems, printed, exit_code>>

world == <<variables, origImage, recompImage, recomp_type_reference, entities>>

tool == <<disk, call>>

locals == <<type_name, data_size, orig_raw, recomp_raw>>

consumer == <<results, verdicts, var_count, problems, printed, exit_code>>

\* ------------------------------------------------- the worlds of a run
\* One matched variable and what the databases and the images hold for it.
Cells == [size : 1..MaxTypeSize, type : {None} \cup TypeKeys,
          orig : Contents, recomp : Contents]

\* The variables of the longer enumerations: every way a variable can end
\* (an error, a raw or typed comparison, an uninitialized side, a layout the
\* format does not agree with).
StreamCells ==
    [size : {MaxTypeSize}, type : {None, "Missing", "Broken", "Pair", "Union"},
     orig : {Absent, Present(<<1>>)}, recomp : {Present(<<>>), Present(<<1>>)}]

OrigAddr(k) == 4096 + 16 * k

RecompAddr(k) == 8192 + 16 * k

\* The k-th matched variable (MatchInfo) of an enumeration of cells.
Variable(cells, k) ==
    [orig_addr |-> OrigAddr(k), recomp_addr |-> RecompAddr(k),
     name |-> <<"var", k>>, size |-> cells[k].size]

World(cells, db) ==
    /\ variables = [k \in 1..Len(cells) |-> Variable(cells, k)]
    /\ origImage = [a \in {OrigAddr(k) : k \in 1..Len(cells)} |->
                        cells[CHOOSE k \in 1..Len(cells) : OrigAddr(k) = a].orig]
    /\ recompImage = [a \in {RecompAddr(k) : k \in 1..Len(cells)} |->
                        cells[CHOOSE k \in 1..Len(cells) : RecompAddr(k) = a].recomp]
    /\ recomp_type_reference =
            [a \in {RecompAddr(k) : k \in 1..Len(cells)} |->
                        cells[CHOOSE k \in 1..Len(cells) : RecompAddr(k) = a].type]
    /\ entities = db

\* parse_args: every flag is off unless given.
DefaultArgs ==
    [show_all |-> FALSE, verbose |-> FALSE, no_color |-> FALSE, print_rec_addr |-> FALSE]

\* The display options of the longer enumerations: --all, --verbose, --no-color.
StreamArgs ==
    [show_all : BOOLEAN, verbose : BOOLEAN, no_color : BOOLEAN, print_rec_addr : {FALSE}]

AllArgs ==
    [show_all : BOOLEAN, verbose : BOOLEAN, no_color : BOOLEAN, print_rec_addr : BOOLEAN]

\* reccmp-project is not part of the run: no file is looked at and neither
\* create_project nor detect_project is called.
NoDisk == <<>>

NoCall ==
    [cmd |-> "none", pc |-> "idle", original_paths |-> <<>>, search_path |-> <<>>,
     detect_what |-> "original", project_data |-> <<>>, pos |-> 0, targets |-> <<>>,
     data |-> <<>>, before |-> <<>>, returned |-> <<>>, raised |-> <<>>]

\* from_directory is not part of the run: do_the_comparison is handed a
\* target.
NotCalled ==
    [pc |-> "idle", files |-> [build |-> TRUE, project |-> TRUE, user |-> TRUE],
     data |-> <<>>, pos |-> 0, targets |-> <<>>, raised |-> <<>>]

\* main has parsed its arguments and is about to iterate do_the_comparison.
Start ==
    /\ project = NotCalled
    /\ disk = NoDisk
    /\ call = NoCall
    /\ pc = "start"
    /\ idx = 0
    /\ type_name = None
    /\ data_size = 0
    /\ orig_raw = Absent
    /\ recomp_raw = Absent
    /\ item = <<>>
    /\ opened = [orig |-> "unopened", recomp |-> "unopened"]
    /\ reads = <<>>
    /\ lookups = <<>>
    /\ results = <<>>
    /\ verdicts = <<>>
    /\ var_count = 0
    /\ problems = 0
    /\ printed = <<>>
    /\ exit_code = <<>>

\* A run over one variable of any content with any compare DB, or over up to
\* MaxVars variables with any display options.
Init ==
    /\ \/ /\ \E c \in Cells, db \in DBStates : World(<<c>>, db)
          /\ args = DefaultArgs
       \/ /\ \E n \in 0..MaxVars : \E cells \in [1..n -> StreamCells] : World(cells, {})
          /\ args \in StreamArgs
    /\ Start

\* ------------------------------------------------------------ the actions
\* How many items the generator has handed out.
Handed == Len(results) + Len(item)

\* Leaving the with statement, on any way out, closes both images.
Released == [orig |-> "closed", recomp |-> "closed"]

\* One read of an image, as the log keeps it: the image, the address, the
\* length asked for, the variable it is for, whether the image was open, and
\* how many items had been handed out.
ReadOf(image, addr, size, k) ==
    [image |-> image, addr |-> addr, size |-> size, var |-> k,
     open |-> opened[image] = "open", handed |-> Handed]

\* One question to the type database.
LookupOf(method, key, k) == [method |-> method, key |-> key, var |-> k, handed |-> Handed]

\* The with statement opens both images; the compare DB and the type table
\* are built.
Begin ==
    /\ pc = "start"
    /\ pc' = "loop"
    /\ opened' = [orig |-> "open", recomp |-> "open"]
    /\ UNCHANGED <<world, args, project, tool, idx, locals, item, reads, lookups, consumer>>

\* Building the compare DB or running cvdump raises inside the with
\* statement: both images are closed and the exception leaves main.
BeginFails ==
    /\ pc = "start"
    /\ pc' = "failed"
    /\ opened' = Released
    /\ UNCHANGED <<world, args, project, tool, idx, locals, item, reads, lookups, consumer>>

\* ResolveSize that keeps the variable's reported size for a typed variable.
ResolveSize_KeepsReportedSize ==
    /\ pc = "loop"
    /\ idx < Len(variables)
    /\ LET var == variables[idx + 1]
           tn == recomp_type_reference[var.recomp_addr]
       IN  /\ tn # None => TypeTable[tn].lookup = "ok"
           /\ type_name' = tn
           /\ data_size' = var.size
           /\ lookups' = IF tn # None THEN Append(lookups, LookupOf("get", tn, idx + 1))
                         ELSE lookups
    /\ idx' = idx + 1
    /\ pc' = "read"
    /\ UNCHANGED <<world, args, project, tool, orig_raw, recomp_raw, item, opened, reads, consumer>>

\* ResolveSize whose "data_size = var.size" runs once, before the loop: an
\* untyped variable is read with the size of the variable before it.
ResolveSize_StaleSize ==
    /\ pc = "loop"
    /\ idx < Len(variables)
    /\ LET var == variables[idx + 1]
           tn == recomp_type_reference[var.recomp_addr]
       IN  /\ tn # None => TypeTable[tn].lookup = "ok"
           /\ type_name' = tn
           /\ data_size' = IF tn # None THEN TypeTable[tn].size
                           ELSE IF idx = 0 THEN var.size ELSE data_size
           /\ lookups' = IF tn # None THEN Append(lookups, LookupOf("get", tn, idx + 1))
                         ELSE lookups
    /\ idx' = idx + 1
    /\ pc' = "read"
    /\ UNCHANGED <<world, args, project, tool, orig_raw, recomp_raw, item, opened, reads, consumer>>

\* The for loop takes the next variable; it has no type, or its type
\* resolves: data_size is set.
ResolveSize ==
    /\ pc = "loop"
    /\ idx < Len(variables)
    /\ LET var == variables[idx + 1]
           tn == recomp_type_reference[var.recomp_addr]
       IN  /\ tn # None => TypeTable[tn].lookup = "ok"
           /\ type_name' = tn
           /\ data_size' = IF tn # None THEN TypeTable[tn].size ELSE var.size
           /\ lookups' = IF tn # None THEN Append(lookups, LookupOf("get", tn, idx + 1))
                         ELSE lookups
    /\ idx' = idx + 1
    /\ pc' = "read"
    /\ UNCHANGED <<world, args, project, tool, orig_raw, recomp_raw, item, opened, reads, consumer>>

\* TypeLookupFails that swallows the exception: the variable goes on to be
\* read with its reported size.
TypeLookupFails_FallsBack ==
    /\ pc = "loop"
    /\ idx < Len(variables)
    /\ LET var == variables[idx + 1]
           tn == recomp_type_reference[var.recomp_addr]
       IN  /\ tn # None
           /\ TypeTable[tn].lookup # "ok"
           /\ type_name' = tn
           /\ data_size' = var.size
           /\ lookups' = Append(lookups, LookupOf("get", tn, idx + 1))
    /\ idx' = idx + 1
    /\ pc' = "read"
    /\ UNCHANGED <<world, args, project, tool, orig_raw, recomp_raw, item, opened, reads, consumer>>

\* TypeLookupFails whose error item is flagged raw_only.
TypeLookupFails_RawOnly ==
    /\ pc = "loop"
    /\ idx < Len(variables)
    /\ LET var == variables[idx + 1]
           tn == recomp_type_reference[var.recomp_addr]
       IN  /\ tn # None
           /\ TypeTable[tn].lookup # "ok"
           /\ type_name' = tn
           /\ item' = <<create_comparison_item(var, <<>>, TypeTable[tn].lookup, TRUE)>>
           /\ lookups' = Append(lookups, LookupOf("get", tn, idx + 1))
    /\ idx' = idx + 1
    /\ pc' = "yielded"
    /\ UNCHANGED <<world, args, project, tool, data_size, orig_raw, recomp_raw, opened, reads,
                   consumer>>

\* TypeLookupFails with the reads ahead of the type lookup: both images are
\* read with the reported size before the error item is yielded.
TypeLookupFails_ReadsFirst ==
    /\ pc = "loop"
    /\ idx < Len(variables)
    /\ LET var == variables[idx + 1]
           tn == recomp_type_reference[var.recomp_addr]
       IN  /\ tn # None
           /\ TypeTable[tn].lookup # "ok"
           /\ type_name' = tn
           /\ item' = <<create_comparison_item(var, <<>>, TypeTable[tn].lookup, FALSE)>>
           /\ reads' = reads \o <<ReadOf("orig", var.orig_addr, var.size, idx + 1),
                                  ReadOf("recomp", var.recomp_addr, var.size, idx + 1)>>
           /\ lookups' = Append(lookups, LookupOf("get", tn, idx + 1))
    /\ idx' = idx + 1
    /\ pc' = "yielded"
    /\ UNCHANGED <<world, args, project, tool, data_size, orig_raw, recomp_raw, opened, consumer>>

\* The for loop takes the next variable; types.get raises CvdumpKeyError or
\* CvdumpIntegrityError: the error item is yielded.
TypeLookupFails ==
    /\ pc = "loop"
    /\ idx < Len(variables)
    /\ LET var == variables[idx + 1]
           tn == recomp_type_reference[var.recomp_addr]
       IN  /\ tn # None
           /\ TypeTable[tn].lookup # "ok"
           /\ type_name' = tn
           /\ item' = <<create_comparison_item(var, <<>>, TypeTable[tn].lookup, FALSE)>>
           /\ lookups' = Append(lookups, LookupOf("get", tn, idx + 1))
    /\ idx' = idx + 1
    /\ pc' = "yielded"
    /\ UNCHANGED <<world, args, project, tool, data_size, orig_raw, recomp_raw, opened, reads,
                   consumer>>

\* ReadImages that also reads the variable after this one, ahead of its turn.
ReadImages_Prefetch ==
    /\ pc = "read"
    /\ LET var == variables[idx]
       IN  /\ orig_raw' = pad(read(origImage, var.orig_addr, data_size), data_size)
           /\ recomp_raw' = pad(read(recompImage, var.recomp_addr, data_size), data_size)
           /\ reads' = reads
                \o <<ReadOf("orig", var.orig_addr, data_size, idx),
                     ReadOf("recomp", var.recomp_addr, data_size, idx)>>
                \o (IF idx < Len(variables)
                    THEN <<ReadOf("orig", variables[idx + 1].orig_addr, data_size, idx + 1),
                           ReadOf("recomp", variables[idx + 1].recomp_addr, data_size,
                                  idx + 1)>>
                    ELSE <<>>)
    /\ pc' = "compare"
    /\ UNCHANGED <<world, args, project, tool, idx, type_name, data_size, item, opened,
                   lookups, consumer>>

\* ReadImages that stores the padded bytes back into the original image.
ReadImages_WritesBack ==
    /\ pc = "read"
    /\ LET var == variables[idx]
       IN  /\ orig_raw' = pad(read(origImage, var.orig_addr, data_size), data_size)
           /\ recomp_raw' = pad(read(recompImage, var.recomp_addr, data_size), data_size)
           /\ reads' = reads \o <<ReadOf("orig", var.orig_addr, data_size, idx),
                                  ReadOf("recomp", var.recomp_addr, data_size, idx)>>
           /\ origImage' = [origImage EXCEPT ![var.orig_addr] = orig_raw']
    /\ pc' = "compare"
    /\ UNCHANGED <<variables, recompImage, recomp_type_reference, entities, args, project,
                   tool, idx,
                   type_name, data_size, item, opened, lookups, consumer>>

\* Both images are read at the variable's addresses; incomplete reads are
\* padded.
ReadImages ==
    /\ pc = "read"
    /\ LET var == variables[idx]
       IN  /\ orig_raw' = pad(read(origImage, var.orig_addr, data_size), data_size)
           /\ recomp_raw' = pad(read(recompImage, var.recomp_addr, data_size), data_size)
           /\ reads' = reads \o <<ReadOf("orig", var.orig_addr, data_size, idx),
                                  ReadOf("recomp", var.recomp_addr, data_size, idx)>>
    /\ pc' = "compare"
    /\ UNCHANGED <<world, args, project, tool, idx, type_name, data_size, item, opened,
                   lookups, consumer>>

\* One or both variables are entirely uninitialized.
CompareUninit ==
    /\ pc = "compare"
    /\ ~orig_raw.present \/ ~recomp_raw.present
    /\ item' = <<UninitItem(variables[idx], orig_raw, recomp_raw)>>
    /\ pc' = "yielded"
    /\ UNCHANGED <<world, args, project, tool, idx, locals, opened, reads, lookups, consumer>>

\* No type: the raw bytes are compared.
CompareRaw ==
    /\ pc = "compare"
    /\ orig_raw.present /\ recomp_raw.present
    /\ type_name = None
    /\ item' = <<RawItem(variables[idx], orig_raw, recomp_raw)>>
    /\ pc' = "yielded"
    /\ UNCHANGED <<world, args, project, tool, idx, locals, opened, reads, lookups, consumer>>

\* CompareTyped without the with statement: an exception leaves the images
\* open.
CompareTyped_LeaksOnRaise ==
    /\ pc = "compare"
    /\ orig_raw.present /\ recomp_raw.present
    /\ type_name # None
    /\ lookups' = lookups \o <<LookupOf("get_scalars_gapless", type_name, idx),
                               LookupOf("get_format_string", type_name, idx)>>
    /\ IF typed_raises(TypeTable[type_name], orig_raw, recomp_raw)
       THEN /\ pc' = "raised"
            /\ item' = item
       ELSE /\ pc' = "yielded"
            /\ item' = <<TypedItem(entities, variables[idx], TypeTable[type_name],
                                   orig_raw, recomp_raw)>>
    /\ UNCHANGED <<world, args, project, tool, idx, locals, opened, reads, consumer>>

\* The type-aware comparison: the scalars and the format are fetched; the item
\* is yielded, or unpack or the member loop raises, the with statement closes
\* the images and the exception leaves the generator and main.
CompareTyped ==
    /\ pc = "compare"
    /\ orig_raw.present /\ recomp_raw.present
    /\ type_name # None
    /\ lookups' = lookups \o <<LookupOf("get_scalars_gapless", type_name, idx),
                               LookupOf("get_format_string", type_name, idx)>>
    /\ IF typed_raises(TypeTable[type_name], orig_raw, recomp_raw)
       THEN /\ pc' = "raised"
            /\ item' = item
            /\ opened' = Released
       ELSE /\ pc' = "yielded"
            /\ item' = <<TypedItem(entities, variables[idx], TypeTable[type_name],
                                   orig_raw, recomp_raw)>>
            /\ opened' = opened
    /\ UNCHANGED <<world, args, project, tool, idx, locals, reads, consumer>>

\* Consume whose "continue" for an undisplayed MATCH comes before the
\* counting.
Consume_SkipsBeforeCounting ==
    /\ pc = "yielded"
    /\ LET skipped == ~args.show_all /\ result(item[1]) = "MATCH"
       IN  /\ var_count' = IF skipped THEN var_count ELSE var_count + 1
           /\ problems' = IF ~skipped /\ result(item[1]) \in {"DIFF", "ERROR"}
                          THEN problems + 1 ELSE problems
    /\ results' = Append(results, item[1])
    /\ verdicts' = Append(verdicts, result(item[1]))
    /\ printed' = printed \o item_lines(args, item[1], result(item[1]))
    /\ item' = <<>>
    /\ pc' = "loop"
    /\ UNCHANGED <<world, args, project, tool, idx, locals, opened, reads, lookups, exit_code>>

\* main's loop body takes the yielded item, counts it, prints it, and asks
\* for the next.
Consume ==
    /\ pc = "yielded"
    /\ var_count' = var_count + 1
    /\ problems' = IF result(item[1]) \in {"DIFF", "ERROR"} THEN problems + 1 ELSE problems
    /\ results' = Append(results, item[1])
    /\ verdicts' = Append(verdicts, result(item[1]))
    /\ printed' = printed \o item_lines(args, item[1], result(item[1]))
    /\ item' = <<>>
    /\ pc' = "loop"
    /\ UNCHANGED <<world, args, project, tool, idx, locals, opened, reads, lookups, exit_code>>

\* The consumer stops iterating while the generator is suspended at a yield
\* (the loop body is left, or another caller closes the generator):
\* GeneratorExit is raised at the yield and the with statement closes the
\* images.
CloseEarly ==
    /\ pc = "yielded"
    /\ pc' = "closed"
    /\ opened' = Released
    /\ UNCHANGED <<world, args, project, tool, idx, locals, item, reads, lookups, consumer>>

\* The enumeration is exhausted: the generator returns, the images are closed,
\* main prints its summary and returns.
Finish ==
    /\ pc = "loop"
    /\ idx = Len(variables)
    /\ pc' = "done"
    /\ opened' = Released
    /\ printed' = Append(printed, <<"Variables: ", var_count, ". Issues: ", problems>>)
    /\ exit_code' = <<IF problems = 0 THEN 0 ELSE 1>>
    /\ UNCHANGED <<world, args, project, tool, idx, locals, item, reads, lookups,
                   results, verdicts, var_count, problems>>

Next ==
    \/ Begin
    \/ BeginFails
    \/ ResolveSize
    \/ TypeLookupFails
    \/ ReadImages
    \/ CompareUninit
    \/ CompareRaw
    \/ CompareTyped
    \/ Consume
    \/ CloseEarly
    \/ Finish

Spec == Init /\ [][Next]_vars

\* ------------------------------------------- ComparisonItem.result alone
\* Any ComparisonItem: any error, any raw_only, any verdicts of up to
\* MaxMembers members.
AnyItems ==
    {[orig_addr |-> OrigAddr(1), recomp_addr |-> RecompAddr(1), name |-> <<"var", 1>>,
      compared |-> [i \in 1..n |-> ComparedOffset(i - 1, None, m[i],
                                                  <<Number(0), Number(0)>>)],
      error |-> e, raw_only |-> r] :
        n \in 0..MaxMembers, m \in [1..MaxMembers -> BOOLEAN],
        e \in {None, "CvdumpKeyError"}, r \in BOOLEAN}

\* main is handed an arbitrary item, under any arguments.
InitResult ==
    /\ World(<<>>, {})
    /\ args \in AllArgs
    /\ project = NotCalled
    /\ disk = NoDisk
    /\ call = NoCall
    /\ pc = "yielded"
    /\ idx = 0
    /\ type_name = None
    /\ data_size = 0
    /\ orig_raw = Absent
    /\ recomp_raw = Absent
    /\ \E it \in AnyItems : item = <<it>>
    /\ opened = [orig |-> "open", recomp |-> "open"]
    /\ reads = <<>>
    /\ lookups = <<>>
    /\ results = <<>>
    /\ verdicts = <<>>
    /\ var_count = 0
    /\ problems = 0
    /\ printed = <<>>
    /\ exit_code = <<>>

NextResult == Consume

SpecResult == InitResult /\ [][NextResult]_vars

\* ------------------------------------------- the vocabulary of the properties
\* The inputs of the k-th variable, read off the databases and the images.
TypeOf(k) == recomp_type_reference[variables[k].recomp_addr]

LookupFails(k) == TypeOf(k) # None /\ TypeTable[TypeOf(k)].lookup # "ok"

SizeOf(k) == IF TypeOf(k) # None THEN TypeTable[TypeOf(k)].size ELSE variables[k].size

OrigAbsent(k) == ~origImage[variables[k].orig_addr].present

RecompAbsent(k) == ~recompImage[variables[k].recomp_addr].present

\* The i-th byte of the buffer of a present side: the byte the image holds,
\* zero past the bytes it holds.
OrigByte(k, i) ==
    LET b == origImage[variables[k].orig_addr].bytes
    IN  IF i <= Len(b) THEN b[i] ELSE 0

RecompByte(k, i) ==
    LET b == recompImage[variables[k].recomp_addr].bytes
    IN  IF i <= Len(b) THEN b[i] ELSE 0

OrigAllZero(k) == \A i \in 1..SizeOf(k) : OrigByte(k, i) = 0

RecompAllZero(k) == \A i \in 1..SizeOf(k) : RecompByte(k, i) = 0

\* The variables main has a result for.
Compared == 1..Len(results)

IsText(value, string) == value[1] = "str" /\ value[2] = <<string>>

\* The k-th variable is a lone 16-bit pointer, read on both sides; the two
\* pointer values.
IsPointerVar(k) == TypeOf(k) = "Ptr" /\ ~OrigAbsent(k) /\ ~RecompAbsent(k)

OrigPointer(k) == OrigByte(k, 1) + 256 * OrigByte(k, 2)

RecompPointer(k) == RecompByte(k, 1) + 256 * RecompByte(k, 2)

\* The layout of the type does not agree with its format or its size.
ViolatingLayout(key) ==
    /\ TypeTable[key].lookup = "ok"
    /\ \/ Len(TypeTable[key].scalars) # Len(TypeTable[key].format)
       \/ calcsize(TypeTable[key].format) # TypeTable[key].size

\* ------------------------------------------------------------------ C1
\* C1: the classification main reads off an item is ERROR whenever the item
\* records an error, whatever its members and raw_only; otherwise MATCH when
\* no member mismatches; otherwise WARN with raw_only and DIFF without.
C1_ResultIsPure ==
    \A k \in 1..Len(verdicts) :
        LET it == results[k]
            mismatch == \E i \in 1..Len(it.compared) : ~it.compared[i].match
        IN  /\ it.error # None => verdicts[k] = "ERROR"
            /\ (it.error = None /\ ~mismatch) => verdicts[k] = "MATCH"
            /\ (it.error = None /\ mismatch /\ it.raw_only) => verdicts[k] = "WARN"
            /\ (it.error = None /\ mismatch /\ ~it.raw_only) => verdicts[k] = "DIFF"

\* An item with an error, raw_only set and a mismatching member has been
\* classified.
C1_Witness ==
    /\ Len(verdicts) = 1
    /\ results[1].error # None
    /\ results[1].raw_only
    /\ \E i \in 1..Len(results[1].compared) : ~results[1].compared[i].match

\* ------------------------------------------------------------------ C2
\* C2: when the stream has ended, main has exactly one result per enumerated
\* variable, in enumeration order.
C2_OneResultPerVariable ==
    pc \in {"done", "raised"} =>
        /\ Len(results) = Len(variables)
        /\ \A k \in 1..Len(results) : results[k].name = variables[k].name

\* ------------------------------------------------------------------ C3
\* C3 as claimed: one side absent and the other all zero gives one matching
\* member, raw_only set, classification MATCH.
C3_AbsentVersusZeroIsMatch ==
    \A k \in Compared :
        (/\ ~LookupFails(k)
         /\ \/ OrigAbsent(k) /\ ~RecompAbsent(k) /\ RecompAllZero(k)
            \/ RecompAbsent(k) /\ ~OrigAbsent(k) /\ OrigAllZero(k))
        => /\ Len(results[k].compared) = 1
           /\ results[k].compared[1].match
           /\ results[k].raw_only
           /\ verdicts[k] = "MATCH"

\* C3 amended: one side absent and the other all zero gives one member that
\* is not a match, raw_only set, classification WARN.
C3_AbsentVersusZeroIsWarn ==
    \A k \in Compared :
        (/\ ~LookupFails(k)
         /\ \/ OrigAbsent(k) /\ ~RecompAbsent(k) /\ RecompAllZero(k)
            \/ RecompAbsent(k) /\ ~OrigAbsent(k) /\ OrigAllZero(k))
        => /\ Len(results[k].compared) = 1
           /\ results[k].compared[1].offset = 0
           /\ ~results[k].compared[1].match
           /\ results[k].raw_only
           /\ results[k].error = None
           /\ verdicts[k] = "WARN"

\* The original read is absent, the recompiled buffer is two zero bytes, and
\* the result is in.
C3_Witness ==
    /\ Len(results) = 1
    /\ ~LookupFails(1)
    /\ SizeOf(1) = 2
    /\ OrigAbsent(1)
    /\ recompImage[variables[1].recomp_addr] = Present(<<0, 0>>)

\* ------------------------------------------------------------------ C4
\* C4: a variable with a type id whose lookup fails gets an error, no
\* members, raw_only unset and ERROR, whatever the images hold.
C4_LookupFailureIsError ==
    \A k \in Compared :
        LookupFails(k)
        => /\ results[k].error # None
           /\ results[k].compared = <<>>
           /\ ~results[k].raw_only
           /\ verdicts[k] = "ERROR"

\* A lookup failed for a variable that is absent from the recompiled image and
\* has a nonzero byte in the original.
C4_Witness ==
    /\ Len(results) = 1
    /\ LookupFails(1)
    /\ RecompAbsent(1)
    /\ \E i \in 1..Len(origImage[variables[1].orig_addr].bytes) :
            origImage[variables[1].orig_addr].bytes[i] # 0

\* ------------------------------------------------------------------ C5
\* C5: do_the_comparison never raises, and a variable whose type layout does
\* not agree with its format or size is classified ERROR.
C5_ViolatingLayoutIsError ==
    /\ pc # "raised"
    /\ \A k \in Compared :
            (TypeOf(k) # None /\ ViolatingLayout(TypeOf(k))) => verdicts[k] = "ERROR"

\* ------------------------------------------------------------------ C6
\* C6: both reads absent (and no lookup failure) gives one member at offset 0
\* that matches, showing "(uninitialized)" twice, raw_only unset, MATCH.
C6_BothAbsentIsMatch ==
    \A k \in Compared :
        (~LookupFails(k) /\ OrigAbsent(k) /\ RecompAbsent(k))
        => /\ Len(results[k].compared) = 1
           /\ results[k].compared[1].offset = 0
           /\ results[k].compared[1].match
           /\ IsText(results[k].compared[1].values[1], "(uninitialized)")
           /\ IsText(results[k].compared[1].values[2], "(uninitialized)")
           /\ ~results[k].raw_only
           /\ results[k].error = None
           /\ verdicts[k] = "MATCH"

\* A typed variable absent from both images has its result.
C6_Witness ==
    /\ Len(results) = 1
    /\ TypeOf(1) = "Pair"
    /\ OrigAbsent(1)
    /\ RecompAbsent(1)

\* ------------------------------------------------------------------ C7
\* C7: one read absent and a nonzero byte in the other buffer gives one
\* member that is not a match, raw_only unset, DIFF, showing
\* "(uninitialized)" on the absent side and "(initialized)" on the other.
C7_AbsentVersusNonzeroIsDiff ==
    \A k \in Compared :
        (/\ ~LookupFails(k)
         /\ \/ OrigAbsent(k) /\ ~RecompAbsent(k) /\ ~RecompAllZero(k)
            \/ RecompAbsent(k) /\ ~OrigAbsent(k) /\ ~OrigAllZero(k))
        => /\ Len(results[k].compared) = 1
           /\ ~results[k].compared[1].match
           /\ ~results[k].raw_only
           /\ verdicts[k] = "DIFF"
           /\ IsText(results[k].compared[1].values[1],
                     IF OrigAbsent(k) THEN "(uninitialized)" ELSE "(initialized)")
           /\ IsText(results[k].compared[1].values[2],
                     IF RecompAbsent(k) THEN "(uninitialized)" ELSE "(initialized)")

\* The recompiled read is absent and the original buffer has a nonzero byte.
C7_Witness ==
    /\ Len(results) = 1
    /\ ~LookupFails(1)
    /\ RecompAbsent(1)
    /\ ~OrigAbsent(1)
    /\ ~OrigAllZero(1)

\* ------------------------------------------------------------------ C8
\* C8: an untyped variable read on both sides gives one member "(raw)" at
\* offset 0 and raw_only set; it is MATCH exactly when the zero-padded
\* buffers are byte-identical, and WARN otherwise.
C8_UntypedIsRaw ==
    \A k \in Compared :
        (TypeOf(k) = None /\ ~OrigAbsent(k) /\ ~RecompAbsent(k))
        => LET same == \A i \in 1..SizeOf(k) : OrigByte(k, i) = RecompByte(k, i)
           IN  /\ Len(results[k].compared) = 1
               /\ results[k].compared[1].name = "(raw)"
               /\ results[k].compared[1].offset = 0
               /\ results[k].raw_only
               /\ verdicts[k] = (IF same THEN "MATCH" ELSE "WARN")

\* An untyped variable whose buffers differ only after zero-padding has its
\* result.
C8_Witness ==
    /\ Len(results) = 1
    /\ TypeOf(1) = None
    /\ variables[1].size = 2
    /\ origImage[variables[1].orig_addr] = Present(<<1>>)
    /\ recompImage[variables[1].recomp_addr] = Present(<<1, 1>>)

\* ------------------------------------------------------------------ C9
\* C9: the verdict of a pointer member is the answer of the compare DB for
\* the two pointer values, not the equality of the addresses: different
\* addresses of one matched entity match, equal addresses the DB does not
\* pair do not.
C9_PointerVerdictIsTheMatchers ==
    \A k \in Compared :
        IsPointerVar(k)
        => LET paired == \E e \in entities : /\ e.orig_addr = OrigPointer(k)
                                             /\ e.recomp_addr = RecompPointer(k)
           IN  /\ Len(results[k].compared) = 1
               /\ results[k].compared[1].match = paired
               /\ (OrigPointer(k) # RecompPointer(k) /\ paired)
                    => results[k].compared[1].match
               /\ (OrigPointer(k) = RecompPointer(k) /\ ~paired)
                    => ~results[k].compared[1].match

\* Two different addresses of one matched entity have been compared.
C9_Witness ==
    /\ Len(results) = 1
    /\ IsPointerVar(1)
    /\ OrigPointer(1) # RecompPointer(1)
    /\ \E e \in entities : e.orig_addr = OrigPointer(1) /\ e.recomp_addr = RecompPointer(1)

OrigExtended(k) == [i \in 1..SizeOf(k) |-> OrigByte(k, i)]

RecompExtended(k) == [i \in 1..SizeOf(k) |-> RecompByte(k, i)]

\* The image holds fewer bytes for the side than the resolved size.
OrigShort(k) == ~OrigAbsent(k) /\ Len(origImage[variables[k].orig_addr].bytes) < SizeOf(k)

RecompShort(k) ==
    ~RecompAbsent(k) /\ Len(recompImage[variables[k].recomp_addr].bytes) < SizeOf(k)

\* C11: a present read shorter than the resolved size, an empty one included,
\* is compared as the read extended with zero bytes to the resolved size, on
\* each side by itself: the buffer that is compared is present and is the
\* extended one, the result records no error, a side that was read is never
\* displayed as uninitialized, and an untyped comparison shows and compares
\* the extended bytes.
C11_ShortReadIsZeroExtended ==
    /\ pc = "compare"
       => /\ orig_raw = (IF OrigAbsent(idx) THEN Absent ELSE Present(OrigExtended(idx)))
          /\ recomp_raw = (IF RecompAbsent(idx) THEN Absent
                           ELSE Present(RecompExtended(idx)))
    /\ \A k \in Compared :
        (~LookupFails(k) /\ (OrigShort(k) \/ RecompShort(k)))
        => /\ results[k].error = None
           /\ Len(results[k].compared) >= 1
           /\ (OrigAbsent(k) \/ RecompAbsent(k))
                => /\ OrigShort(k) => IsText(results[k].compared[1].values[1],
                                             "(initialized)")
                   /\ RecompShort(k) => IsText(results[k].compared[1].values[2],
                                               "(initialized)")
           /\ (TypeOf(k) = None /\ ~OrigAbsent(k) /\ ~RecompAbsent(k))
                => /\ results[k].compared[1].values
                        = <<Bytes(OrigExtended(k)), Bytes(RecompExtended(k))>>
                   /\ results[k].compared[1].match
                        = (OrigExtended(k) = RecompExtended(k))

\* An untyped variable of size 2 has been compared whose original read
\* returned no bytes and whose recompiled read returned one byte.
C11_Witness ==
    /\ Len(results) = 1
    /\ TypeOf(1) = None
    /\ SizeOf(1) = 2
    /\ origImage[variables[1].orig_addr] = Present(<<>>)
    /\ recompImage[variables[1].recomp_addr] = Present(<<1>>)

\* ------------------------------------------------------------------ C12
\* The first byte of the i-th field of a format, counted from zero.
FieldStart(fmt, i) == calcsize(SubSeq(fmt, 1, i - 1))

\* The bytes of the i-th field are the same on both sides.
SameField(k, fmt, i) ==
    \A j \in (FieldStart(fmt, i) + 1)..(FieldStart(fmt, i) + fmt[i]) :
        OrigByte(k, j) = RecompByte(k, j)

\* The k-th variable has a type the database knows and was read on both sides.
IsTypedVar(k) ==
    TypeOf(k) # None /\ ~LookupFails(k) /\ ~OrigAbsent(k) /\ ~RecompAbsent(k)

\* C12: the result of a typed variable read on both sides has one member per
\* scalar of the layout, in the layout's order, with the scalar's offset and
\* name; a member that is no pointer matches exactly when its field holds the
\* same value on both sides; raw_only is unset and the classification is MATCH
\* when every member matches and DIFF otherwise, never WARN.
C12_TypedIsMemberwise ==
    \A k \in Compared :
        IsTypedVar(k)
        => LET layout == TypeTable[TypeOf(k)].scalars
               fmt == TypeTable[TypeOf(k)].format
               members == results[k].compared
           IN  /\ Len(members) = Len(layout)
               /\ \A i \in 1..Len(layout) :
                    /\ members[i].offset = layout[i].offset
                    /\ members[i].name = layout[i].name
                    /\ ~layout[i].is_pointer
                        => members[i].match = SameField(k, fmt, i)
               /\ ~results[k].raw_only
               /\ results[k].error = None
               /\ verdicts[k] = (IF \A i \in 1..Len(members) : members[i].match
                                 THEN "MATCH" ELSE "DIFF")

\* A type of two members has been compared whose first member is the same on
\* both sides and whose second differs.
C12_Witness ==
    /\ Len(results) = 1
    /\ IsTypedVar(1)
    /\ TypeOf(1) = "Pair"
    /\ OrigByte(1, 1) = RecompByte(1, 1)
    /\ OrigByte(1, 2) # RecompByte(1, 2)
    /\ verdicts[1] = "DIFF"

\* ------------------------------------------------------------------ C13
\* The name of a hexadecimal digit.
DigitName(d) ==
    CASE d = 0 -> "0" [] d = 1 -> "1" [] d = 2 -> "2" [] d = 3 -> "3"
      [] d = 4 -> "4" [] d = 5 -> "5" [] d = 6 -> "6" [] d = 7 -> "7"
      [] d = 8 -> "8" [] d = 9 -> "9" [] d = 10 -> "a" [] d = 11 -> "b"
      [] d = 12 -> "c" [] d = 13 -> "d" [] d = 14 -> "e" [] d = 15 -> "f"

\* The lower-case hexadecimal digits of a pointer whose two bytes are both
\* below 16.
PointerDigits(lo, hi) ==
    IF hi = 0 THEN <<DigitName(lo)>> ELSE <<DigitName(hi), "0", DigitName(lo)>>

\* What a side shows for a pointer: found is the set of entities at the
\* address on that side.
PointerText(lo, hi, found) ==
    IF lo = 0 /\ hi = 0 THEN Text(<<"nullptr">>)
    ELSE IF found # {} THEN Text(<<"Pointer to ", (CHOOSE e \in found : TRUE).name>>)
    ELSE Text(<<"Unknown pointer 0x">> \o PointerDigits(lo, hi))

\* C13: each side of a pointer member shows "nullptr" for zero, "Pointer to
\* <name>" for an address the compare DB knows on that side (the original
\* value among the original addresses, the recompiled value among the
\* recompiled ones) and "Unknown pointer 0x<hex>" otherwise; the member is
\* there and its verdict is the matcher's answer whether or not the addresses
\* resolve.
C13_PointerDisplayPerSide ==
    \A k \in Compared :
        IsPointerVar(k)
        => /\ Len(results[k].compared) = 1
           /\ results[k].compared[1].values[1]
                = PointerText(OrigByte(k, 1), OrigByte(k, 2),
                              {e \in entities : e.orig_addr = OrigPointer(k)})
           /\ results[k].compared[1].values[2]
                = PointerText(RecompByte(k, 1), RecompByte(k, 2),
                              {e \in entities : e.recomp_addr = RecompPointer(k)})
           /\ results[k].compared[1].match
                = (\E e \in entities : /\ e.orig_addr = OrigPointer(k)
                                       /\ e.recomp_addr = RecompPointer(k))

\* Two equal non-zero pointers have been compared of which the original one
\* is a known original address and the recompiled one is no known recompiled
\* address.
C13_Witness ==
    /\ Len(results) = 1
    /\ IsPointerVar(1)
    /\ OrigPointer(1) = RecompPointer(1)
    /\ OrigPointer(1) # 0
    /\ \E e \in entities : e.orig_addr = OrigPointer(1)
    /\ ~\E e \in entities : e.recomp_addr = RecompPointer(1)
    /\ ~results[1].compared[1].match

\* ------------------------------------------------------------------ C14
\* The results main has classified DIFF or ERROR.
ProblemResults == {k \in Compared : verdicts[k] \in {"DIFF", "ERROR"}}

C15_PullBased ==
    /\ \A i \in 1..Len(reads) :
        /\ reads[i].handed = reads[i].var - 1
        /\ reads[i].var <= Len(results) + 1
    /\ \A i \in 1..Len(lookups) :
        /\ lookups[i].handed = lookups[i].var - 1
        /\ lookups[i].var <= Len(results) + 1
    /\ pc = "closed" => \A i \in 1..Len(reads) : reads[i].var <= Handed

\* The consumer has closed the stream after the first of two variables, both
\* of which would have been read.
C15_Witness ==
    /\ pc = "closed"
    /\ Len(variables) = 2
    /\ Handed = 1
    /\ Len(reads) = 2
    /\ ~LookupFails(2)

\* ------------------------------------------------------------------ C16
\* C16: both images are open from the with statement on while the run lasts,
\* both are closed on every way the run ends (the stream is exhausted, an
\* exception leaves the comparison of a variable or the building of the
\* indexes, the consumer closes the stream), and every read was of an open
\* image.
C16_ImagesReleasedOnEveryExit ==
    /\ pc \in {"loop", "read", "compare", "yielded"}
        => opened = [orig |-> "open", recomp |-> "open"]
    /\ pc \in {"done", "raised", "failed", "closed"} => opened = Released
    /\ pc = "start" => reads = <<>>
    /\ \A i \in 1..Len(reads) : reads[i].open

\* An exception has left the comparison of a variable after both images were
\* read.
C16_Witness ==
    /\ pc = "raised"
    /\ Len(reads) >= 2
    /\ opened.orig = "closed" /\ opened.recomp = "closed"

\* ------------------------------------------------------------------ C17
\* C17: the images are read in pairs, the original at the variable's original
\* address and the recompiled at its recompiled address, both for the same
\* number of bytes: the size of the type when the recompiled address has a
\* type, the variable's reported size when it has none.
C17_BytesRequested ==
    /\ Len(reads) % 2 = 0
    /\ \A j \in 1..(Len(reads) \div 2) :
        LET o == reads[2 * j - 1]
            r == reads[2 * j]
            v == variables[o.var]
        IN  /\ r.var = o.var
            /\ o.image = "orig" /\ o.addr = v.orig_addr
            /\ r.image = "recomp" /\ r.addr = v.recomp_addr
            /\ o.size = r.size
            /\ TypeOf(o.var) # None => o.size = TypeTable[TypeOf(o.var)].size
            /\ TypeOf(o.var) = None => o.size = v.size

\* A variable has been read whose reported size is 1 and whose type has
\* size 2.
C17_Witness ==
    /\ Len(reads) = 2
    /\ variables[1].size = 1
    /\ TypeOf(1) = "T_USHORT"
    /\ reads[1].size = 2

\* ------------------------------------------------------------------ C18
\* The result the k-th variable's own inputs call for.
OwnResult(k) ==
    LET var == variables[k]
        o == IF OrigAbsent(k) THEN Absent ELSE Present(OrigExtended(k))
        r == IF RecompAbsent(k) THEN Absent ELSE Present(RecompExtended(k))
    IN  IF LookupFails(k)
        THEN create_comparison_item(var, <<>>, TypeTable[TypeOf(k)].lookup, FALSE)
        ELSE IF OrigAbsent(k) \/ RecompAbsent(k) THEN UninitItem(var, o, r)
        ELSE IF TypeOf(k) = None THEN RawItem(var, o, r)
        ELSE TypedItem(entities, var, TypeTable[TypeOf(k)], o, r)

\* Two variables have the same size, type entry and bytes.
SameInputs(j, k) ==
    /\ variables[j].size = variables[k].size
    /\ TypeOf(j) = TypeOf(k)
    /\ origImage[variables[j].orig_addr] = origImage[variables[k].orig_addr]
    /\ recompImage[variables[j].recomp_addr] = recompImage[variables[k].recomp_addr]

\* C18: the result of a variable is the one its own inputs call for, whatever
\* comes before it; two variables with the same inputs at different positions
\* of the enumeration get the same members, error and raw_only.
C18_ResultOfOwnInputs ==
    /\ \A k \in Compared : results[k] = OwnResult(k)
    /\ \A j \in Compared, k \in Compared :
        SameInputs(j, k)
        => /\ results[j].compared = results[k].compared
           /\ results[j].error = results[k].error
           /\ results[j].raw_only = results[k].raw_only

\* An untyped variable of two bytes has been compared after a variable whose
\* type has size 1.
C18_Witness ==
    /\ Len(results) = 2
    /\ TypeOf(1) = "Union"
    /\ TypeOf(2) = None
    /\ variables[2].size = 2
    /\ ~OrigAbsent(2) /\ ~RecompAbsent(2)

\* ------------------------------------------------------------------ C19
\* C19: no step of the run changes the enumeration of the compare DB, its
\* entities, the table from recompiled addresses to types or the contents of
\* either image.
C19_EngineOnlyReads == [][UNCHANGED world]_vars

\* A run has ended after reading both images and asking the type database.
C19_Witness ==
    /\ pc = "done"
    /\ Len(reads) >= 2
    /\ Len(lookups) >= 1
    /\ Len(results) >= 1

\* ====================================== RecCmpBuiltProject.from_directory
MaxTargets == 2

\* What a key of a target's entry holds: None for a key that is not there,
\* the empty string, or a path.
Truthy(value) == value # None /\ value # ""

\* str.strip()
strip(value) == IF value = " orig.exe " THEN "orig.exe" ELSE value

\* pathlib.Path(value): Path("") is Path("."); Path(None) raises TypeError.
Path(value) == IF value = "" THEN "." ELSE value

\* The entries of one target id in the three configs: filename of the project
\* config, path of the user config, path and pdb of the build config.
TargetData ==
    [filename : {None, "orig.exe"}, user_path : {None, " orig.exe "},
     build_path : {None, "", "recomp.exe"}, pdb : {None, "", "recomp.pdb"}]

\* The exceptions from_directory ends with: the class, the key the message
\* names and the target id (0 when the message names no target). What was
\* raised is kept as <<>> or <<exception>>.
Raise(type, key, target_id) == [type |-> type, key |-> key, target_id |-> target_id]

\* RecCmpBuiltTarget(...)
RecCmpBuiltTarget(target_id, filename, original_path, recompiled_path, recompiled_pdb) ==
    [target_id |-> target_id, filename |-> filename, original_path |-> original_path,
     recompiled_path |-> recompiled_path, recompiled_pdb |-> recompiled_pdb]

\* The test before "pdb is missing": it tests the path once more.
pdb_is_missing(recompiled_path_str, recompiled_pdb_str) == ~Truthy(recompiled_path_str)

\* One pass of the loop over the project's targets for target_id with its
\* entries t: the exception it raises, or the target it builds.
target_step(target_id, t) ==
    IF t.filename = None
    THEN [raised |-> <<Raise("TypeError", "filename", target_id)>>]
    ELSE IF ~Truthy(t.user_path)
    THEN [raised |-> <<Raise("InvalidRecCmpProjectException", "user.path", target_id)>>]
    ELSE IF ~Truthy(t.build_path)
    THEN [raised |-> <<Raise("InvalidRecCmpProjectException", "build.path", target_id)>>]
    ELSE IF pdb_is_missing(t.build_path, t.pdb)
    THEN [raised |-> <<Raise("InvalidRecCmpProjectException", "build.pdb", target_id)>>]
    ELSE IF t.pdb = None
    THEN [raised |-> <<Raise("TypeError", "build.pdb", target_id)>>]
    ELSE [raised |-> <<>>,
          built |-> RecCmpBuiltTarget(target_id, t.filename, Path(strip(t.user_path)),
                                      Path(t.build_path), Path(t.pdb))]

\* The rest of the module's state while from_directory runs.
datacmp == <<variables, origImage, recompImage, recomp_type_reference, entities, args,
             pc, idx, type_name, data_size, orig_raw, recomp_raw, item, opened, reads,
             lookups, results, verdicts, var_count, problems, printed, exit_code>>

\* from_directory is called on a directory: which of the three config files
\* are there, and the entries of up to MaxTargets targets.
InitBuilt ==
    /\ World(<<>>, {})
    /\ args = DefaultArgs
    /\ disk = NoDisk
    /\ call = NoCall
    /\ \E files \in [build : BOOLEAN, project : BOOLEAN, user : BOOLEAN],
          n \in 0..MaxTargets :
        \E data \in [1..n -> TargetData] :
            /\ ~(files.build /\ files.project /\ files.user) => n = 0
            /\ files.build = FALSE => (files.project /\ files.user)
            /\ files.project = FALSE => files.user
            /\ project = [pc |-> "find", files |-> files, data |-> data, pos |-> 0,
                          targets |-> <<>>, raised |-> <<>>]
    /\ pc = "start"
    /\ idx = 0
    /\ type_name = None
    /\ data_size = 0
    /\ orig_raw = Absent
    /\ recomp_raw = Absent
    /\ item = <<>>
    /\ opened = [orig |-> "unopened", recomp |-> "unopened"]
    /\ reads = <<>>
    /\ lookups = <<>>
    /\ results = <<>>
    /\ verdicts = <<>>
    /\ var_count = 0
    /\ problems = 0
    /\ printed = <<>>
    /\ exit_code = <<>>

\* The build config is looked for in the directory and its parents.
FindBuildConfig ==
    /\ project.pc = "find"
    /\ project' = IF ~project.files.build
                  THEN [project EXCEPT !.pc = "raised",
                            !.raised = <<Raise("RecCmpProjectNotFoundException", "build", 0)>>]
                  ELSE [project EXCEPT !.pc = "project_config"]
    /\ UNCHANGED <<datacmp, tool>>

\* The project config the build config names has to be a file.
LoadProjectConfig ==
    /\ project.pc = "project_config"
    /\ project' = IF ~project.files.project
                  THEN [project EXCEPT !.pc = "raised",
                            !.raised = <<Raise("InvalidRecCmpProjectException", "project", 0)>>]
                  ELSE [project EXCEPT !.pc = "user_config"]
    /\ UNCHANGED <<datacmp, tool>>

\* The user config has to be a file.
LoadUserConfig ==
    /\ project.pc = "user_config"
    /\ project' = IF ~project.files.user
                  THEN [project EXCEPT !.pc = "raised",
                            !.raised = <<Raise("InvalidRecCmpProjectException", "user", 0)>>]
                  ELSE [project EXCEPT !.pc = "create"]
    /\ UNCHANGED <<datacmp, tool>>

\* verify_target_names only warns; the project is created without targets.
CreateProject ==
    /\ project.pc = "create"
    /\ project' = [project EXCEPT !.pc = "targets", !.targets = <<>>]
    /\ UNCHANGED <<datacmp, tool>>

\* One pass of the loop over the project's targets.
BuildTarget ==
    /\ project.pc = "targets"
    /\ project.pos < Len(project.data)
    /\ LET target_id == project.pos + 1
           step == target_step(target_id, project.data[target_id])
       IN  project' = IF step.raised # <<>>
                      THEN [project EXCEPT !.pc = "raised", !.raised = step.raised,
                                           !.pos = target_id]
                      ELSE [project EXCEPT !.pos = target_id,
                                           !.targets = Append(@, step.built)]
    /\ UNCHANGED <<datacmp, tool>>

\* The loop is over: the project is returned.
ReturnProject ==
    /\ project.pc = "targets"
    /\ project.pos = Len(project.data)
    /\ project' = [project EXCEPT !.pc = "returned"]
    /\ UNCHANGED <<datacmp, tool>>

NextBuilt ==
    \/ FindBuildConfig
    \/ LoadProjectConfig
    \/ LoadUserConfig
    \/ CreateProject
    \/ BuildTarget
    \/ ReturnProject

SpecBuilt == InitBuilt /\ [][NextBuilt]_vars

\* ------------------------------------------------------------------ C20
\* The loop has come to target k, whose entry in the build config has a path
\* and no pdb, and has ended or gone on from it.
PathWithoutPdb(k) ==
    /\ k \in 1..Len(project.data)
    /\ project.data[k].filename # None
    /\ Truthy(project.data[k].user_path)
    /\ Truthy(project.data[k].build_path)
    /\ project.data[k].pdb = None
    /\ project.pos >= k

\* C20: from_directory ends with InvalidRecCmpProjectException "pdb is
\* missing" at a target whose entry in the build config has a path and no
\* pdb, and no RecCmpBuiltTarget is built for such a target.
C20_MissingPdbIsInvalidProject ==
    /\ \A k \in 1..Len(project.data) :
        PathWithoutPdb(k)
        => /\ project.pc = "raised"
           /\ project.raised = <<Raise("InvalidRecCmpProjectException", "build.pdb", k)>>
    /\ \A i \in 1..Len(project.targets) :
        project.data[project.targets[i].target_id].pdb # None

\* ------------------------------------------------------------------ C23
\* The items do_the_comparison has yielded: those main has taken and the one
\* that waits at the yield, each with the variable it is for.
Yielded ==
    {<<k, results[k]>> : k \in Compared}
        \cup {<<Len(results) + i, item[i]>> : i \in 1..Len(item)}

\* C23: a yielded item records an error exactly when the type lookup of its
\* variable failed, and then it has no members and raw_only unset; an item
\* with raw_only set records no error and has exactly one member, at
\* offset 0; so an item classified WARN has a single member.
C23_ShapeOfResults ==
    \A y \in Yielded :
        LET k == y[1]
            it == y[2]
        IN  /\ (it.error # None) = LookupFails(k)
            /\ it.error # None => (it.compared = <<>> /\ ~it.raw_only)
            /\ it.raw_only => /\ it.error = None
                              /\ Len(it.compared) = 1
                              /\ it.compared[1].offset = 0
            /\ result(it) = "WARN" => Len(it.compared) = 1

\* main has taken an ERROR item and a WARN item.
C23_Witness ==
    /\ Len(results) = 2
    /\ results[1].error # None
    /\ results[2].raw_only
    /\ verdicts = <<"ERROR", "WARN">>

\* ------------------------------------------------------------------ C24
\* C24: no image is read for a variable whose type lookup fails and no
\* scalar layout or format is asked for it: its error item is yielded right
\* after types.get; and every read for a variable with a type comes after
\* the types.get for that variable.
C24_SizeResolutionPrecedesReads ==
    /\ \A k \in 1..Len(variables) :
        LookupFails(k)
        => /\ \A i \in 1..Len(reads) : reads[i].var # k
           /\ \A i \in 1..Len(lookups) :
                lookups[i].var = k => lookups[i].method = "get"
           /\ idx >= k => \E y \in Yielded : y[1] = k /\ y[2].error # None
    /\ \A i \in 1..Len(reads) :
        TypeOf(reads[i].var) # None
        => \E j \in 1..Len(lookups) :
              /\ lookups[j].var = reads[i].var
              /\ lookups[j].method = "get"
              /\ lookups[j].key = TypeOf(reads[i].var)

\* The type lookup of the first variable failed, the second variable has been
\* read and compared: the only reads are those of the second.
C24_Witness ==
    /\ Len(results) = 2
    /\ LookupFails(1)
    /\ ~LookupFails(2)
    /\ Len(reads) = 2
    /\ reads[1].var = 2 /\ reads[2].var = 2
    /\ verdicts[1] = "ERROR"

\* ================================================== reccmp-project (tools)
MaxOriginals == 2

MaxFolders == 2

\* pathlib.Path: the directory, the stem (in parts) and the suffix.
PathOf(dir, stem, suffix) == [dir |-> dir, stem |-> stem, suffix |-> suffix]

\* str(path), in parts
str(path) == <<path.dir, "/">> \o path.stem \o <<path.suffix>>

\* path.name, in parts
name(path) == path.stem \o <<path.suffix>>

\* path.with_suffix(suffix)
with_suffix(path, suffix) == [path EXCEPT !.suffix = suffix]

\* path.resolve(): the directory made absolute
resolve(path) ==
    [path EXCEPT !.dir = CASE path.dir = "orig" -> "/cwd/orig"
                           [] path.dir = "other" -> "/cwd/other"
                           [] path.dir = "proj" -> "/cwd/proj"
                           [] OTHER -> path.dir]

\* str.lower() and str.upper() and re.sub("[^0-9a-zA-Z_]", "", ...) on the
\* strings that occur.
lower(string) ==
    CASE string = "LEGO1" -> "lego1" [] string = "ISLE" -> "isle"
      [] string = ".DLL" -> ".dll" [] string = ".EXE" -> ".exe"
      [] OTHER -> string

upper(string) ==
    CASE string = "lego1" -> "LEGO1" [] string = "isle" -> "ISLE"
      [] string = "toolx" -> "TOOLX"
      [] OTHER -> string

alnum(string) == CASE string = "tool-x" -> "toolx" [] OTHER -> string

\* str(suffix_nb)
decimal(n) ==
    CASE n = 0 -> "0" [] n = 1 -> "1" [] n = 2 -> "2" [] n = 3 -> "3" [] n = 4 -> "4"
      [] n = 5 -> "5" [] n = 6 -> "6" [] n = 7 -> "7" [] n = 8 -> "8" [] n = 9 -> "9"

\* path_to_id(path)
path_to_id(path) == alnum(lower(path.stem[1]))

\* What a file or a directory holds: a file holds entries, each the target
\* id it is about (<<>> for none), a key and a value in parts.
Entry(target, key, value) == [target |-> target, key |-> key, value |-> value]

FileOf(data) == [kind |-> "file", data |-> data]

Directory == [kind |-> "dir", data |-> <<>>]

\* path.exists(), path.is_file()
exists(d, path) == path \in DOMAIN d

is_file(d, path) == path \in DOMAIN d /\ d[path].kind = "file"

\* path.open("w") and write
write(d, path, data) ==
    [q \in DOMAIN d \cup {path} |-> IF q = path THEN FileOf(data) ELSE d[q]]

\* path.open("a") and write
append(d, path, data) ==
    write(d, path, (IF path \in DOMAIN d THEN d[path].data ELSE <<>>) \o data)

\* path.mkdir(exist_ok=True)
mkdir(d, path) ==
    IF path \in DOMAIN d THEN d
    ELSE [q \in DOMAIN d \cup {path} |-> IF q = path THEN Directory ELSE d[q]]

\* The files of a project directory.
RECCMP_PROJECT_CONFIG == PathOf("proj", <<"reccmp-project">>, ".yml")

RECCMP_USER_CONFIG == PathOf("proj", <<"reccmp-user">>, ".yml")

RECCMP_BUILD_CONFIG == PathOf("build", <<"reccmp-build">>, ".yml")

gitignore_path == PathOf("proj", <<".gitignore">>, "")

project_cmake_dir == PathOf("proj", <<"cmake">>, "")

reccmp_cmake == PathOf("proj/cmake", <<"reccmp">>, ".cmake")

cmakelists_path == PathOf("proj", <<"CMakeLists">>, ".txt")

main_cpp_path(target_id) == PathOf("proj", <<"main_">> \o target_id, ".cpp")

main_hpp_path(target_id) == PathOf("proj", <<"main_">> \o target_id, ".hpp")

GITIGNORE_RULES ==
    <<Entry(<<>>, "line", <<"reccmp-user.yml">>), Entry(<<>>, "line", <<"reccmp-build.yml">>)>>

\* executable_or_library(path): "" stands for the ValueError.
executable_or_library(path) ==
    IF lower(path.suffix) = ".dll" THEN "SHARED_LIBRARY"
    ELSE IF lower(path.suffix) = ".exe" THEN "EXECUTABLE"
    ELSE ""

\* The ids taken so far.
Ids(targets) == {targets[i].id : i \in 1..Len(targets)}

\* The id create_project gives the next original: path_to_id, with the first
\* free _<n> after it when the id is taken.
new_target_id(targets, original_path) ==
    LET target_id == <<path_to_id(original_path)>>
    IN  IF target_id \in Ids(targets)
        THEN LET free == {n \in 0..Len(targets) :
                            target_id \o <<"_", decimal(n)>> \notin Ids(targets)}
                 suffix_nb == CHOOSE n \in free : \A m \in free : n <= m
             IN  target_id \o <<"_", decimal(suffix_nb)>>
        ELSE target_id

\* get_default_project_config(targets)
get_default_project_config(targets) ==
    [i \in 1..(2 * Len(targets)) |->
        LET t == targets[(i + 1) \div 2]
        IN  IF i % 2 = 1 THEN Entry(t.id, "filename", name(t.path))
            ELSE Entry(t.id, "source-root", <<".">>)]

\* get_default_user_config(targets)
get_default_user_config(targets) ==
    [i \in 1..Len(targets) |-> Entry(targets[i].id, "path", str(resolve(targets[i].path)))]

\* get_default_cmakelists_txt(project_name, targets); no id here starts with
\* "lib", so the prefix is always empty.
get_default_cmakelists_txt(project_name, targets) ==
    <<Entry(<<>>, "project", <<project_name>>)>>
    \o [i \in 1..(2 * Len(targets)) |->
        LET t == targets[(i + 1) \div 2]
        IN  IF i % 2 = 1
            THEN Entry(t.id, IF executable_or_library(t.path) = "EXECUTABLE"
                             THEN "add_executable" ELSE "add_library", t.path.stem)
            ELSE Entry(t.id, "SUFFIX", <<t.path.suffix>>)]
    \o <<Entry(<<>>, "reccmp_configure", <<>>)>>

\* get_default_main_hpp(target_id)
get_default_main_hpp(target_id) ==
    <<Entry(target_id, "ifndef", [i \in 1..Len(target_id) |-> upper(target_id[i])]
                                 \o <<"_HPP">>)>>

\* get_default_main_cpp(target_id, original_path, hpp_path)
get_default_main_cpp(target_id, original_path, hpp_path) ==
    <<Entry(target_id, "include", name(hpp_path)),
      Entry(target_id, "entry", <<IF executable_or_library(original_path) = "EXECUTABLE"
                                  THEN "WinMain" ELSE "DllMain">>)>>

\* ------------------------------------------------------- create_project
\* The originals a call can name.
OriginalsPool ==
    {PathOf("orig", <<"LEGO1">>, ".DLL"), PathOf("other", <<"lego1">>, ".dll"),
     PathOf("orig", <<"ISLE">>, ".EXE"), PathOf("orig", <<"tool-x">>, ".bin")}

\* What a file holds that was there before the call.
OldData == <<Entry(<<>>, "line", <<"old">>)>>

\* The disks create_project can find: some originals are files, one may be a
\* directory; the project directory may hold a project config and a
\* .gitignore.
CreateDisks ==
    {[q \in F \cup D \cup X |-> IF q \in D THEN Directory ELSE FileOf(OldData)] :
        F \in SUBSET OriginalsPool,
        D \in SUBSET {PathOf("orig", <<"LEGO1">>, ".DLL")},
        X \in SUBSET {RECCMP_PROJECT_CONFIG, gitignore_path}}

\* The rest of the module's state while reccmp-project runs.
others == <<datacmp, project>>

Return(code) == [call EXCEPT !.pc = "returned", !.returned = <<code>>]

\* "if not original_paths": return 1.
CheckOriginals ==
    /\ call.cmd = "create"
    /\ call.pc = "start"
    /\ call' = IF call.original_paths = <<>> THEN Return(1)
               ELSE [call EXCEPT !.pc = "originals"]
    /\ UNCHANGED <<disk, others>>

\* One pass of the loop over the originals: return 1 unless it is a file,
\* else it gets its target id.
TakeOriginal ==
    /\ call.cmd = "create"
    /\ call.pc = "originals"
    /\ call.pos < Len(call.original_paths)
    /\ LET original_path == call.original_paths[call.pos + 1]
       IN  call' = IF ~is_file(disk, original_path) THEN Return(1)
                   ELSE [call EXCEPT
                            !.pos = @ + 1,
                            !.targets = Append(@, [id |-> new_target_id(call.targets,
                                                                        original_path),
                                                   path |-> original_path])]
    /\ UNCHANGED <<disk, others>>

\* CheckProjectFile that goes on over a project config that is there.
CheckProjectFile_Overwrites ==
    /\ call.cmd = "create"
    /\ call.pc = "originals"
    /\ call.pos = Len(call.original_paths)
    /\ call' = [call EXCEPT !.pc = "project_config"]
    /\ UNCHANGED <<disk, others>>

\* "if project_file.exists()": return 1.
CheckProjectFile ==
    /\ call.cmd = "create"
    /\ call.pc = "originals"
    /\ call.pos = Len(call.original_paths)
    /\ call' = IF exists(disk, RECCMP_PROJECT_CONFIG) THEN Return(1)
               ELSE [call EXCEPT !.pc = "project_config"]
    /\ UNCHANGED <<disk, others>>

WriteProjectConfig ==
    /\ call.cmd = "create"
    /\ call.pc = "project_config"
    /\ disk' = write(disk, RECCMP_PROJECT_CONFIG, get_default_project_config(call.targets))
    /\ call' = [call EXCEPT !.pc = "user_config"]
    /\ UNCHANGED others

WriteUserConfig ==
    /\ call.cmd = "create"
    /\ call.pc = "user_config"
    /\ disk' = write(disk, RECCMP_USER_CONFIG, get_default_user_config(call.targets))
    /\ call' = [call EXCEPT !.pc = "gitignore"]
    /\ UNCHANGED others

AppendGitignore ==
    /\ call.cmd = "create"
    /\ call.pc = "gitignore"
    /\ disk' = append(disk, gitignore_path, GITIGNORE_RULES)
    /\ call' = [call EXCEPT !.pc = "cmake"]
    /\ UNCHANGED others

\* The cmake directory is made and reccmp.cmake is copied into it.
CopyCmake ==
    /\ call.cmd = "create"
    /\ call.pc = "cmake"
    /\ disk' = write(mkdir(disk, project_cmake_dir), reccmp_cmake,
                     <<Entry(<<>>, "copy", <<"cmake/reccmp.cmake">>)>>)
    /\ call' = [call EXCEPT !.pc = "cmakelists"]
    /\ UNCHANGED others

\* get_default_cmakelists_txt raises ValueError for an original that is
\* neither .dll nor .exe; else CMakeLists.txt is written.
WriteCMakeLists ==
    /\ call.cmd = "create"
    /\ call.pc = "cmakelists"
    /\ IF \E i \in 1..Len(call.targets) : executable_or_library(call.targets[i].path) = ""
       THEN /\ call' = [call EXCEPT !.pc = "raised", !.raised = <<"ValueError">>]
            /\ disk' = disk
       ELSE /\ disk' = write(disk, cmakelists_path,
                             get_default_cmakelists_txt(
                                path_to_id(call.original_paths[1]), call.targets))
            /\ call' = [call EXCEPT !.pc = "mains", !.pos = 0]
    /\ UNCHANGED others

\* One pass of the loop over the targets: main_<id>.cpp and main_<id>.hpp.
WriteMain ==
    /\ call.cmd = "create"
    /\ call.pc = "mains"
    /\ call.pos < Len(call.targets)
    /\ LET t == call.targets[call.pos + 1]
       IN  disk' = write(write(disk, main_cpp_path(t.id),
                               get_default_main_cpp(t.id, t.path, main_hpp_path(t.id))),
                         main_hpp_path(t.id), get_default_main_hpp(t.id))
    /\ call' = [call EXCEPT !.pos = @ + 1]
    /\ UNCHANGED others

CreateReturn ==
    /\ call.cmd = "create"
    /\ call.pc = "mains"
    /\ call.pos = Len(call.targets)
    /\ call' = Return(0)
    /\ UNCHANGED <<disk, others>>

\* ------------------------------------------------------- detect_project
\* The folders a search path can name, and the targets a project config can
\* hold: the id and the filename.
FoldersPool == {"build", "out"}

ProjectDatas ==
    {<<>>,
     <<[id |-> <<"lego1">>, filename |-> [stem |-> <<"LEGO1">>, suffix |-> ".DLL"]]>>,
     <<[id |-> <<"lego1">>, filename |-> [stem |-> <<"LEGO1">>, suffix |-> ".DLL"]],
       [id |-> <<"isle">>, filename |-> [stem |-> <<"ISLE">>, suffix |-> ".EXE"]]>>}

\* The binaries and the .pdb files the folders can hold.
Binaries ==
    {PathOf(folder, stem, suffix) :
        folder \in FoldersPool,
        stem \in {<<"LEGO1">>, <<"ISLE">>},
        suffix \in {".pdb"}}
    \cup {PathOf(folder, <<"LEGO1">>, ".DLL") : folder \in FoldersPool}
    \cup {PathOf(folder, <<"ISLE">>, ".EXE") : folder \in FoldersPool}

\* The disks detect_project can find: any of the binaries and .pdb files, the
\* project config (or, for no targets, none), and for the originals a user
\* config or none.
DetectDisks(project_data, detect_what) ==
    {[q \in F \cup X |->
        IF q = RECCMP_USER_CONFIG
        THEN FileOf(<<Entry(<<"lego1">>, "path", <<"old">>)>>)
        ELSE FileOf(OldData)] :
        F \in SUBSET Binaries,
        X \in {{RECCMP_PROJECT_CONFIG}}
              \cup (IF project_data = <<>> THEN {{}} ELSE {})
              \cup (IF detect_what = "original"
                    THEN {{RECCMP_PROJECT_CONFIG, RECCMP_USER_CONFIG}} ELSE {})}

\* search_path_folder / filename
InFolder(search_path_folder, filename) ==
    PathOf(search_path_folder, filename.stem, filename.suffix)

\* dict.setdefault on the entries of one target: an entry that is there is
\* kept.
setdefault(data, target_id, key, value) ==
    IF \E i \in 1..Len(data) : data[i].target = target_id /\ data[i].key = key
    THEN data
    ELSE Append(data, Entry(target_id, key, value))

\* What a found original adds to user_data.
original_entries(data, target_id, p) == setdefault(data, target_id, "path", str(p))

\* What a found recompiled binary adds to build_data: both keys get str(p).
recompiled_entries(data, target_id, p, pdb) ==
    setdefault(setdefault(data, target_id, "path", str(p)), target_id, "pdb", str(p))

\* The first folder of the search path that has what is looked for; 0 for
\* none.
first_folder(found) ==
    IF found = {} THEN 0 ELSE CHOOSE j \in found : \A m \in found : j <= m

\* The project config is opened and loaded: FileNotFoundError without it.
LoadProjectData ==
    /\ call.cmd = "detect"
    /\ call.pc = "start"
    /\ call' = IF ~is_file(disk, RECCMP_PROJECT_CONFIG)
               THEN [call EXCEPT !.pc = "raised", !.raised = <<"FileNotFoundError">>]
               ELSE [call EXCEPT !.pc = "loaded"]
    /\ UNCHANGED <<disk, others>>

\* what=original: user_data is the user config, or empty targets without one.
StartOriginal ==
    /\ call.cmd = "detect"
    /\ call.pc = "loaded"
    /\ call.detect_what = "original"
    /\ call' = [call EXCEPT !.pc = "targets",
                            !.data = IF is_file(disk, RECCMP_USER_CONFIG)
                                     THEN disk[RECCMP_USER_CONFIG].data ELSE <<>>]
    /\ UNCHANGED <<disk, others>>

\* what=recompiled: build_data starts with the project directory.
StartRecompiled ==
    /\ call.cmd = "detect"
    /\ call.pc = "loaded"
    /\ call.detect_what = "recompiled"
    /\ call' = [call EXCEPT !.pc = "targets",
                            !.data = <<Entry(<<>>, "project",
                                             <<resolve(RECCMP_PROJECT_CONFIG).dir>>)>>]
    /\ UNCHANGED <<disk, others>>

\* One pass of the loop over the project's targets, what=original.
DetectOriginalTarget ==
    /\ call.cmd = "detect"
    /\ call.pc = "targets"
    /\ call.detect_what = "original"
    /\ call.pos < Len(call.project_data)
    /\ LET t == call.project_data[call.pos + 1]
           found == {j \in 1..Len(call.search_path) :
                        is_file(disk, InFolder(call.search_path[j], t.filename))}
           j == first_folder(found)
       IN  call' = [call EXCEPT
                        !.pos = @ + 1,
                        !.data = IF j = 0 THEN @
                                 ELSE original_entries(@, t.id,
                                        InFolder(call.search_path[j], t.filename))]
    /\ UNCHANGED <<disk, others>>

\* One pass of the loop over the project's targets, what=recompiled.
DetectRecompiledTarget ==
    /\ call.cmd = "detect"
    /\ call.pc = "targets"
    /\ call.detect_what = "recompiled"
    /\ call.pos < Len(call.project_data)
    /\ LET t == call.project_data[call.pos + 1]
           found == {j \in 1..Len(call.search_path) :
                        LET p == InFolder(call.search_path[j], t.filename)
                        IN  is_file(disk, p) /\ is_file(disk, with_suffix(p, ".pdb"))}
           j == first_folder(found)
       IN  call' = [call EXCEPT
                        !.pos = @ + 1,
                        !.data = IF j = 0 THEN @
                                 ELSE LET p == InFolder(call.search_path[j], t.filename)
                                      IN  recompiled_entries(@, t.id, p,
                                                             with_suffix(p, ".pdb"))]
    /\ UNCHANGED <<disk, others>>

\* The user config is written and detect_project returns 0.
UpdateUserConfig ==
    /\ call.cmd = "detect"
    /\ call.pc = "targets"
    /\ call.detect_what = "original"
    /\ call.pos = Len(call.project_data)
    /\ disk' = write(disk, RECCMP_USER_CONFIG, call.data)
    /\ call' = Return(0)
    /\ UNCHANGED others

\* The build config is written and detect_project returns 0.
UpdateBuildConfig ==
    /\ call.cmd = "detect"
    /\ call.pc = "targets"
    /\ call.detect_what = "recompiled"
    /\ call.pos = Len(call.project_data)
    /\ disk' = write(disk, RECCMP_BUILD_CONFIG, call.data)
    /\ call' = Return(0)
    /\ UNCHANGED others

\* ---------------------------------------------- the runs of reccmp-project
\* reccmp-project create with up to MaxOriginals originals, or reccmp-project
\* detect with a search path of up to MaxFolders folders.
InitTool ==
    /\ World(<<>>, {})
    /\ args = DefaultArgs
    /\ project = NotCalled
    /\ \/ \E n \in 0..MaxOriginals :
            \E original_paths \in [1..n -> OriginalsPool], d \in CreateDisks :
                /\ disk = d
                /\ call = [NoCall EXCEPT !.cmd = "create", !.pc = "start",
                                         !.original_paths = original_paths,
                                         !.before = d]
       \/ \E n \in 0..MaxFolders, project_data \in ProjectDatas,
             detect_what \in {"original", "recompiled"} :
            \E search_path \in [1..n -> FoldersPool],
               d \in DetectDisks(project_data, detect_what) :
                /\ disk = d
                /\ call = [NoCall EXCEPT !.cmd = "detect", !.pc = "start",
                                         !.search_path = search_path,
                                         !.detect_what = detect_what,
                                         !.project_data = project_data,
                                         !.before = d]
    /\ pc = "start"
    /\ idx = 0
    /\ type_name = None
    /\ data_size = 0
    /\ orig_raw = Absent
    /\ recomp_raw = Absent
    /\ item = <<>>
    /\ opened = [orig |-> "unopened", recomp |-> "unopened"]
    /\ reads = <<>>
    /\ lookups = <<>>
    /\ results = <<>>
    /\ verdicts = <<>>
    /\ var_count = 0
    /\ problems = 0
    /\ printed = <<>>
    /\ exit_code = <<>>

NextTool ==
    \/ CheckOriginals
    \/ TakeOriginal
    \/ CheckProjectFile
    \/ WriteProjectConfig
    \/ WriteUserConfig
    \/ AppendGitignore
    \/ CopyCmake
    \/ WriteCMakeLists
    \/ WriteMain
    \/ CreateReturn
    \/ LoadProjectData
    \/ StartOriginal
    \/ StartRecompiled
    \/ DetectOriginalTarget
    \/ DetectRecompiledTarget
    \/ UpdateUserConfig
    \/ UpdateBuildConfig

SpecTool == InitTool /\ [][NextTool]_vars

\* ------------------------------------------------------------------ C21
\* The first folder of the search path that holds both the binary and the
\* .pdb file of the i-th project target; 0 for none.
FolderOfBoth(i) ==
    first_folder({j \in 1..Len(call.search_path) :
        LET p == InFolder(call.search_path[j], call.project_data[i].filename)
        IN  is_file(call.before, p) /\ is_file(call.before, with_suffix(p, ".pdb"))})

\* The entries of the file at a path.
EntriesAt(path) == {disk[path].data[i] : i \in 1..Len(disk[path].data)}

\* C21: after detect_project with what=recompiled, the build config holds for
\* each project target found with its .pdb file in a search folder, the first
\* such folder's binary under "path" and that folder's .pdb file under "pdb",
\* and holds nothing for a target found in no folder.
C21_RecompiledPathAndPdb ==
    (call.cmd = "detect" /\ call.detect_what = "recompiled" /\ call.pc = "returned")
    => \A i \in 1..Len(call.project_data) :
        LET t == call.project_data[i]
            j == FolderOfBoth(i)
            p == InFolder(call.search_path[j], t.filename)
        IN  IF j # 0
            THEN /\ Entry(t.id, "path", str(p)) \in EntriesAt(RECCMP_BUILD_CONFIG)
                 /\ Entry(t.id, "pdb", str(with_suffix(p, ".pdb")))
                        \in EntriesAt(RECCMP_BUILD_CONFIG)
            ELSE \A e \in EntriesAt(RECCMP_BUILD_CONFIG) : e.target # t.id

\* ------------------------------------------------------------------ C22
\* create_project was called with no originals, with an original that is no
\* file, or on a project directory that holds a project config.
FailingCreate ==
    \/ call.original_paths = <<>>
    \/ \E i \in 1..Len(call.original_paths) : ~is_file(call.before, call.original_paths[i])
    \/ exists(call.before, RECCMP_PROJECT_CONFIG)

\* C22: create_project called with no originals, with an original that is no
\* file, or on a directory that holds a project config leaves every file and
\* directory as it was and returns 1; the disk differs from what it was only
\* once all three checks have passed.
C22_FailedCreateWritesNothing ==
    call.cmd = "create"
    => /\ FailingCreate
            => /\ disk = call.before
               /\ call.pc \in {"start", "originals", "returned"}
               /\ call.pc = "returned" => call.returned = <<1>>
       /\ disk # call.before
            => /\ ~FailingCreate
               /\ call.pc \notin {"start", "originals"}
               /\ call.returned # <<1>>

\* create_project has returned 1 for two originals, both files, on a
\* directory that held a project config and a .gitignore.
C22_Witness ==
    /\ call.cmd = "create"
    /\ call.pc = "returned"
    /\ call.returned = <<1>>
    /\ Len(call.original_paths) = 2
    /\ \A i \in 1..2 : is_file(call.before, call.original_paths[i])
    /\ exists(call.before, RECCMP_PROJECT_CONFIG)
    /\ exists(call.before, gitignore_path)
    /\ Len(call.targets) = 2

====
